---- MODULE Spec2Model ----
(***************************************************************************)
(* Model of src/app.py, the SuperStore KPI dashboard.                      *)
(*                                                                         *)
(* The script is re-executed from top to bottom on every interaction.  A   *)
(* pass is modelled as the sequence of its stages (pc), one action per     *)
(* stage, each stage reading the widgets it creates.  Data frames live in  *)
(* a heap of frame objects, so that aliasing (df_filtered_region =         *)
(* df_original), copies (.copy(), boolean indexing) and in-place column    *)
(* assignment are distinguished.  Measures are integers and ratios are     *)
(* exact rationals (the program computes them in binary floating point).   *)
(***************************************************************************)
EXTENDS Integers, Sequences, FiniteSets, TLC

\* ---------------------------------------------------------------- bounds
\* Largest number of rows of the workbook.
MaxRows == 3

\* ------------------------------------------------------------- constants
\* head(10) of the three "top 10" selections.
TopN == 10

\* Missing cell (NaN / None) of a categorical column.
NA == "<NA>"

\* ------------------------------------------------------------ arithmetic
Abs(x) == IF x < 0 THEN -x ELSE x

Min2(a, b) == IF a <= b THEN a ELSE b

RECURSIVE Gcd(_, _)
Gcd(a, b) == IF b = 0 THEN a ELSE Gcd(b, a % b)

\* The rational n/d (d # 0) in lowest terms with a positive denominator.
Rat(n, d) ==
    LET s == IF d < 0 THEN -1 ELSE 1
        g == Gcd(Abs(n), Abs(d))
    IN  [num |-> (s * n) \div g, den |-> (s * d) \div g]

FromInt(n) == Rat(n, 1)

RatZero == FromInt(0)

RatSub(a, b) == Rat(a.num * b.den - b.num * a.den, a.den * b.den)

RatDiv(a, b) == Rat(a.num * b.den, a.den * b.num)

RatMulInt(a, k) == Rat(a.num * k, a.den)

RatLess(a, b) == a.num * b.den < b.num * a.den

\* ------------------------------------------------------- ordering of text
\* Every text value of the model, in the order Python's sorted() gives.
Alphabet ==
    << "Akron", "Austin", "Chair A", "Chairs", "East", "Furniture", "Guam",
       "Hagatna", "Ohio", "Paper", "Paper D", "Phone B", "Phones", "Supplies",
       "Table C", "Tables", "Technology", "Texas", "West" >>

Ord(s) == CHOOSE i \in 1..Len(Alphabet) : Alphabet[i] = s

\* sorted(S) for a set S of text values.
RECURSIVE sorted(_)
sorted(S) ==
    IF S = {} THEN << >>
    ELSE LET m == CHOOSE x \in S : \A y \in S : Ord(x) <= Ord(y)
         IN  << m >> \o sorted(S \ {m})

\* Ascending sequence of a set of integers (dates are integers).
RECURSIVE sortedInts(_)
sortedInts(S) ==
    IF S = {} THEN << >>
    ELSE LET m == CHOOSE x \in S : \A y \in S : x <= y
         IN  << m >> \o sortedInts(S \ {m})

\* ---------------------------------------------------------------- tables
\* A table (DataFrame) is a sequence of rows; a row is a record.
Rows(t) == { t[i] : i \in 1..Len(t) }

\* df[col].dropna().unique()
DistinctNonNull(t, col) == { r[col] : r \in Rows(t) } \ {NA}

\* df[df[col] == value]: a missing cell equals nothing.
WhereNotEquals(t, col, value) ==
    SelectSeq(t, LAMBDA r : r[col] # NA /\ r[col] # value)

WhereEquals(t, col, value) ==
    SelectSeq(t, LAMBDA r : r[col] # NA /\ r[col] = value)

RECURSIVE ColumnSum(_, _)
ColumnSum(t, col) ==
    IF t = << >> THEN 0 ELSE Head(t)[col] + ColumnSum(Tail(t), col)

DateMin(t) == CHOOSE d \in { r.OrderDate : r \in Rows(t) } :
                  \A r \in Rows(t) : d <= r.OrderDate

DateMax(t) == CHOOSE d \in { r.OrderDate : r \in Rows(t) } :
                  \A r \in Rows(t) : d >= r.OrderDate

\* The rows of "Sample - Superstore.xlsx" are drawn from this pool.
RowPool ==
    << [Region |-> "East", State |-> "Ohio", City |-> "Akron",
        Category |-> "Furniture", SubCategory |-> "Chairs",
        ProductName |-> "Chair A", OrderDate |-> 1,
        Sales |-> 100, Quantity |-> 2, Profit |-> 20],
       [Region |-> "East", State |-> "Ohio", City |-> "Akron",
        Category |-> "Furniture", SubCategory |-> "Chairs",
        ProductName |-> "Chair A", OrderDate |-> 3,
        Sales |-> 150, Quantity |-> 3, Profit |-> 15],
       [Region |-> "West", State |-> "Texas", City |-> "Austin",
        Category |-> "Technology", SubCategory |-> "Phones",
        ProductName |-> "Phone B", OrderDate |-> 2,
        Sales |-> 0, Quantity |-> 1, Profit |-> -5],
       [Region |-> "West", State |-> "Guam", City |-> "Hagatna",
        Category |-> "Furniture", SubCategory |-> "Tables",
        ProductName |-> "Table C", OrderDate |-> 3,
        Sales |-> 100, Quantity |-> 2, Profit |-> 20],
       [Region |-> "East", State |-> NA, City |-> "Akron",
        Category |-> "Supplies", SubCategory |-> NA,
        ProductName |-> "Paper D", OrderDate |-> 1,
        Sales |-> 50, Quantity |-> 0, Profit |-> 0],
       [Region |-> NA, State |-> "Texas", City |-> "Austin",
        Category |-> "Technology", SubCategory |-> "Phones",
        ProductName |-> "Phone B", OrderDate |-> 1,
        Sales |-> 0, Quantity |-> 3, Profit |-> 0] >>

\* The workbooks considered: between 1 and MaxRows pool rows, in pool order.
Workbooks ==
    { [i \in 1..Cardinality(S) |-> RowPool[sortedInts(S)[i]]] :
        S \in { T \in SUBSET (1..Len(RowPool)) :
                  Cardinality(T) >= 1 /\ Cardinality(T) <= MaxRows } }

\* load_data(): read_excel gives the rows a RangeIndex (idx); Order Date is
\* already of a datetime type, so the conversion branch leaves it alone.
load_data(book) ==
    [i \in 1..Len(book) |-> [idx |-> i - 1] @@ book[i]]


\* ----------------------------------------------------------------- state
VARIABLES
    workbook,              \* the rows of "Sample - Superstore.xlsx"
    heap,                  \* frame objects: heap[ref] is the table of frame ref
    pc,                    \* the stage of the script the pass is at
    df_original,           \* ref: the table load_data() returned (cached)
    all_regions, selected_region, df_filtered_region,
    all_states, selected_state, df_filtered_state,
    all_categories, selected_category, df_filtered_category,
    all_subcats, selected_subcat,
    df,                    \* ref: the active view
    min_date, max_date, from_date, to_date,
    sidebar_error,         \* "From Date must be earlier than To Date." shown
    kpi,                   \* start_*, end_*, *_growth of lines 88-109
    totals,                \* total_sales .. margin_rate of lines 142-152
    scale_option, selected_kpi,
    empty_warning,         \* "No data available ..." shown
    daily_grouped, product_grouped, top_10,
    grouped_data, top_10_grouped,
    city_profit, top_10_cities

filterVars ==
    << all_regions, selected_region, df_filtered_region,
       all_states, selected_state, df_filtered_state,
       all_categories, selected_category, df_filtered_category,
       all_subcats, selected_subcat >>

dateVars == << min_date, max_date, from_date, to_date, sidebar_error >>

chartVars ==
    << scale_option, selected_kpi, empty_warning,
       daily_grouped, product_grouped, top_10 >>

barVars == << grouped_data, top_10_grouped >>

cityVars == << city_profit, top_10_cities >>

vars ==
    << workbook, heap, pc, df_original, filterVars, df, dateVars, kpi, totals,
       chartVars, barVars, cityVars >>

Elems(s) == { s[i] : i \in 1..Len(s) }

\* st.sidebar.selectbox(label, options): the entry the user has picked.
selectbox(options) == Elems(options)

\* The ref a newly created frame gets.
NewRef == Len(heap) + 1

ZeroKpi ==
    [start_sales |-> RatZero, end_sales |-> RatZero,
     start_quantity |-> RatZero, end_quantity |-> RatZero,
     start_profit |-> RatZero, end_profit |-> RatZero,
     start_margin |-> RatZero, end_margin |-> RatZero,
     sales_growth |-> RatZero, quantity_growth |-> RatZero,
     profit_growth |-> RatZero, margin_growth |-> RatZero]

ZeroTotals ==
    [total_sales |-> RatZero, total_quantity |-> RatZero,
     total_profit |-> RatZero, margin_rate |-> RatZero]

\* The names of the script before its first statement has run (a frame name
\* that is not bound yet holds the ref 0, which is no frame).
FreshNamespace ==
    /\ all_regions = << >> /\ selected_region = "All"
    /\ df_filtered_region = 0
    /\ all_states = << >> /\ selected_state = "All"
    /\ df_filtered_state = 0
    /\ all_categories = << >> /\ selected_category = "All"
    /\ df_filtered_category = 0
    /\ all_subcats = << >> /\ selected_subcat = "All"
    /\ df = 0
    /\ min_date = 0 /\ max_date = 0 /\ from_date = 0 /\ to_date = 0
    /\ sidebar_error = FALSE
    /\ kpi = ZeroKpi /\ totals = ZeroTotals
    /\ scale_option = "Category" /\ selected_kpi = "Sales"
    /\ empty_warning = FALSE
    /\ daily_grouped = << >> /\ product_grouped = << >> /\ top_10 = << >>
    /\ grouped_data = << >> /\ top_10_grouped = << >>
    /\ city_profit = << >> /\ top_10_cities = << >>

Init ==
    /\ workbook \in Workbooks
    /\ heap = << load_data(workbook) >>
    /\ df_original = 1
    /\ pc = "region"
    /\ FreshNamespace

\* ------------------------------------------------------- sidebar filters
\* sorted(frame[col].dropna().unique()) of the frame the level starts from.
LevelOptionsUnfiltered(prev, col) ==
    sorted(DistinctNonNull(heap[df_original], col))

LevelOptions(prev, col) == sorted(DistinctNonNull(heap[prev], col))

\* options=["All"] + all_xxx
WithAll(options) == << "All" >> \o options

\* Region filter.
RegionFilter ==
    /\ pc = "region"
    /\ all_regions' = LevelOptions(df_original, "Region")
    /\ \E sel \in selectbox(WithAll(all_regions')) :
         /\ selected_region' = sel
         /\ IF sel # "All"
            THEN /\ heap' = Append(heap, WhereEquals(heap[df_original], "Region", sel))
                 /\ df_filtered_region' = NewRef
            ELSE /\ heap' = heap
                 /\ df_filtered_region' = df_original
    /\ pc' = "state"
    /\ UNCHANGED << workbook, df_original,
                    all_states, selected_state, df_filtered_state,
                    all_categories, selected_category, df_filtered_category,
                    all_subcats, selected_subcat,
                    df, dateVars, kpi, totals, chartVars, barVars, cityVars >>

\* State filter.
StateFilter ==
    /\ pc = "state"
    /\ all_states' = LevelOptions(df_filtered_region, "State")
    /\ \E sel \in selectbox(WithAll(all_states')) :
         /\ selected_state' = sel
         /\ IF sel # "All"
            THEN /\ heap' = Append(heap, WhereEquals(heap[df_filtered_region], "State", sel))
                 /\ df_filtered_state' = NewRef
            ELSE /\ heap' = heap
                 /\ df_filtered_state' = df_filtered_region
    /\ pc' = "category"
    /\ UNCHANGED << workbook, df_original,
                    all_regions, selected_region, df_filtered_region,
                    all_categories, selected_category, df_filtered_category,
                    all_subcats, selected_subcat,
                    df, dateVars, kpi, totals, chartVars, barVars, cityVars >>

\* Category filter.
CategoryFilter ==
    /\ pc = "category"
    /\ all_categories' = LevelOptions(df_filtered_state, "Category")
    /\ \E sel \in selectbox(WithAll(all_categories')) :
         /\ selected_category' = sel
         /\ IF sel # "All"
            THEN /\ heap' = Append(heap, WhereEquals(heap[df_filtered_state], "Category", sel))
                 /\ df_filtered_category' = NewRef
            ELSE /\ heap' = heap
                 /\ df_filtered_category' = df_filtered_state
    /\ pc' = "subcat"
    /\ UNCHANGED << workbook, df_original,
                    all_regions, selected_region, df_filtered_region,
                    all_states, selected_state, df_filtered_state,
                    all_subcats, selected_subcat,
                    df, dateVars, kpi, totals, chartVars, barVars, cityVars >>

\* Sub-Category filter: df is a copy of df_filtered_category, then filtered.
SubCategoryFilter ==
    /\ pc = "subcat"
    /\ all_subcats' = LevelOptions(df_filtered_category, "SubCategory")
    /\ \E sel \in selectbox(WithAll(all_subcats')) :
         /\ selected_subcat' = sel
         /\ LET copied == Append(heap, heap[df_filtered_category])
            IN  IF sel # "All"
                THEN /\ heap' = Append(copied,
                                  WhereEquals(copied[Len(copied)], "SubCategory", sel))
                     /\ df' = Len(copied) + 1
                ELSE /\ heap' = copied
                     /\ df' = Len(copied)
    /\ pc' = "dates"
    /\ UNCHANGED << workbook, df_original,
                    all_regions, selected_region, df_filtered_region,
                    all_states, selected_state, df_filtered_state,
                    all_categories, selected_category, df_filtered_category,
                    dateVars, kpi, totals, chartVars, barVars, cityVars >>

\* ------------------------------------------------------------ date range
\* (Order Date >= from_date) & (Order Date <= to_date).  Order Date cells are
\* whole days (day numbers), as in the Superstore workbook, so the midnight
\* timestamps pd.to_datetime makes of the two picked days compare day to day.
InDateRangeStrict(d, lo, hi) == d >= lo /\ d < hi

InDateRangeSwapped(d, lo, hi) == d >= Min2(lo, hi) /\ d <= (lo + hi) - Min2(lo, hi)

InDateRange(d, lo, hi) == d >= lo /\ d <= hi

\* st.sidebar.date_input(value, min_value, max_value): a day in the range.
date_input(lo, hi) == lo..hi

DateRange ==
    /\ pc = "dates"
    /\ IF heap[df] = << >>
       THEN /\ min_date' = DateMin(heap[df_original])
            /\ max_date' = DateMax(heap[df_original])
       ELSE /\ min_date' = DateMin(heap[df])
            /\ max_date' = DateMax(heap[df])
    /\ from_date' \in date_input(min_date', max_date')
    /\ to_date' \in date_input(min_date', max_date')
    /\ sidebar_error' = (from_date' > to_date')
    /\ heap' = Append(heap,
                 SelectSeq(heap[df],
                     LAMBDA r : InDateRange(r.OrderDate, from_date', to_date')))
    /\ df' = NewRef
    /\ pc' = "kpi"
    /\ UNCHANGED << workbook, df_original, filterVars, kpi, totals,
                    chartVars, barVars, cityVars >>


\* ------------------------------------------------------- KPI computation
\* df[df["Order Date"] == date]
BoundaryRowsUpTo(t, date) == SelectSeq(t, LAMBDA r : r.OrderDate <= date)

BoundaryRows(t, date) == SelectSeq(t, LAMBDA r : r.OrderDate = date)

\* The frame the KPI stage reads.
KpiFrameBeforeDates == df_filtered_category

KpiFrame == df

\* (profit / sales) * 100 if sales != 0 else 0
MarginPercent(profit, sales) ==
    IF sales # 0 THEN RatMulInt(Rat(profit, sales), 100) ELSE RatZero

\* ((end - start) / start) * 100 if start != 0 else 0
GrowthNoSubtraction(start, end) ==
    IF start # RatZero
    THEN RatMulInt(RatDiv(end, start), 100)
    ELSE RatZero

Growth(start, end) ==
    IF start # RatZero
    THEN RatMulInt(RatDiv(RatSub(end, start), start), 100)
    ELSE RatZero

KpiOf(t) ==
    LET df_start == IF t = << >> THEN << >> ELSE BoundaryRows(t, DateMin(t))
        df_end   == IF t = << >> THEN << >> ELSE BoundaryRows(t, DateMax(t))
        ss == FromInt(ColumnSum(df_start, "Sales"))
        es == FromInt(ColumnSum(df_end, "Sales"))
        sq == FromInt(ColumnSum(df_start, "Quantity"))
        eq == FromInt(ColumnSum(df_end, "Quantity"))
        sp == FromInt(ColumnSum(df_start, "Profit"))
        ep == FromInt(ColumnSum(df_end, "Profit"))
        sm == MarginPercent(ColumnSum(df_start, "Profit"), ColumnSum(df_start, "Sales"))
        em == MarginPercent(ColumnSum(df_end, "Profit"), ColumnSum(df_end, "Sales"))
    IN  [start_sales |-> ss, end_sales |-> es,
         start_quantity |-> sq, end_quantity |-> eq,
         start_profit |-> sp, end_profit |-> ep,
         start_margin |-> sm, end_margin |-> em,
         sales_growth |-> Growth(ss, es),
         quantity_growth |-> Growth(sq, eq),
         profit_growth |-> Growth(sp, ep),
         margin_growth |-> Growth(sm, em)]

TotalsOf(t) ==
    IF t = << >>
    THEN ZeroTotals
    ELSE LET total_sales == ColumnSum(t, "Sales")
             total_profit == ColumnSum(t, "Profit")
         IN  [total_sales |-> FromInt(total_sales),
              total_quantity |-> FromInt(ColumnSum(t, "Quantity")),
              total_profit |-> FromInt(total_profit),
              margin_rate |-> IF total_sales # 0
                              THEN Rat(total_profit, total_sales)
                              ELSE RatZero]

ComputeKPI ==
    /\ pc = "kpi"
    /\ kpi' = KpiOf(heap[KpiFrame])
    /\ totals' = TotalsOf(heap[df])
    /\ pc' = "charts"
    /\ UNCHANGED << workbook, heap, df_original, filterVars, df, dateVars,
                    chartVars, barVars, cityVars >>

\* ------------------------------------------------------------ aggregation
kpi_options == << "Sales", "Quantity", "Profit", "Margin Rate" >>

scale_options == << "Category", "Sub-Category", "Product" >>

\* st.radio(label, options): the entry the user has picked.
radio(options) == Elems(options)

\* The keys of df.groupby(col), which sorts them and drops missing keys.
GroupKeys(t, col) ==
    IF col = "OrderDate"
    THEN sortedInts({ r[col] : r \in Rows(t) })
    ELSE sorted(DistinctNonNull(t, col))

\* df.groupby(col).agg({"Sales": "sum", "Quantity": "sum", "Profit": "sum"})
\*   .reset_index()
GroupBy(t, col) ==
    LET keys == GroupKeys(t, col)
    IN  [i \in 1..Len(keys) |->
            LET g == SelectSeq(t, LAMBDA r : r[col] = keys[i])
            IN  [key |-> keys[i],
                 Sales |-> ColumnSum(g, "Sales"),
                 Quantity |-> ColumnSum(g, "Quantity"),
                 Profit |-> ColumnSum(g, "Profit")]]

\* df.groupby("City").agg({"Profit": "sum"}).reset_index()
GroupProfitBy(t, col) ==
    LET keys == GroupKeys(t, col)
    IN  [i \in 1..Len(keys) |->
            LET g == SelectSeq(t, LAMBDA r : r[col] = keys[i])
            IN  [key |-> keys[i], Profit |-> ColumnSum(g, "Profit")]]

\* g["Margin Rate"] = g["Profit"] / g["Sales"].replace(0, 1)
WithMarginRate(g) ==
    [i \in 1..Len(g) |->
        ("Margin Rate" :>
            Rat(g[i].Profit, IF g[i].Sales = 0 THEN 1 ELSE g[i].Sales)) @@ g[i]]

\* The value of column `by` of an aggregate row, as a rational.
Measure(row, by) ==
    IF by = "Margin Rate" THEN row["Margin Rate"] ELSE FromInt(row[by])

\* sort_values(by=by, ascending=False) with the default kind="quicksort",
\* which is not a stable sort: every descending arrangement of the rows is a
\* possible result, whatever the order of rows with equal values.
sort_values(t, by) ==
    { s \in { [i \in 1..Len(t) |-> t[p[i]]] : p \in Permutations(1..Len(t)) } :
        \A i \in 1..(Len(s) - 1) :
            ~ RatLess(Measure(s[i], by), Measure(s[i + 1], by)) }

\* frame.head(n)
head(t, n) == SubSeq(t, 1, Min2(n, Len(t)))

\* Lines 198-243: the granularity and KPI radios, the daily and the product
\* aggregates and the top 10 products.
PrepareCharts ==
    /\ pc = "charts"
    /\ scale_option' \in radio(scale_options)
    /\ selected_kpi' \in radio(kpi_options)
    /\ IF heap[df] = << >>
       THEN /\ empty_warning' = TRUE
            /\ daily_grouped' = << >>
            /\ product_grouped' = << >>
            /\ top_10' = << >>
       ELSE /\ empty_warning' = FALSE
            /\ daily_grouped' = WithMarginRate(GroupBy(heap[df], "OrderDate"))
            /\ product_grouped' \in
                 sort_values(WithMarginRate(GroupBy(heap[df], "ProductName")),
                             selected_kpi')
            /\ top_10' = head(product_grouped', TopN)
    /\ pc' = "map"
    /\ UNCHANGED << workbook, heap, df_original, filterVars, df, dateVars,
                    kpi, totals, barVars, cityVars >>

\* ------------------------------------------------- state abbreviations
state_abbreviation_map ==
    << << "Alabama", "AL" >>, << "Alaska", "AK" >>, << "Arizona", "AZ" >>,
       << "Arkansas", "AR" >>, << "California", "CA" >>, << "Colorado", "CO" >>,
       << "Connecticut", "CT" >>, << "Delaware", "DE" >>,
       << "District of Columbia", "DC" >>, << "Florida", "FL" >>,
       << "Georgia", "GA" >>, << "Hawaii", "HI" >>, << "Idaho", "ID" >>,
       << "Illinois", "IL" >>, << "Indiana", "IN" >>, << "Iowa", "IA" >>,
       << "Kansas", "KS" >>, << "Kentucky", "KY" >>, << "Louisiana", "LA" >>,
       << "Maine", "ME" >>, << "Maryland", "MD" >>, << "Massachusetts", "MA" >>,
       << "Michigan", "MI" >>, << "Minnesota", "MN" >>, << "Mississippi", "MS" >>,
       << "Missouri", "MO" >>, << "Montana", "MT" >>, << "Nebraska", "NE" >>,
       << "Nevada", "NV" >>, << "New Hampshire", "NH" >>, << "New Jersey", "NJ" >>,
       << "New Mexico", "NM" >>, << "New York", "NY" >>,
       << "North Carolina", "NC" >>, << "North Dakota", "ND" >>, << "Ohio", "OH" >>,
       << "Oklahoma", "OK" >>, << "Oregon", "OR" >>, << "Pennsylvania", "PA" >>,
       << "Rhode Island", "RI" >>, << "South Carolina", "SC" >>,
       << "South Dakota", "SD" >>, << "Tennessee", "TN" >>, << "Texas", "TX" >>,
       << "Utah", "UT" >>, << "Vermont", "VT" >>, << "Virginia", "VA" >>,
       << "Washington", "WA" >>, << "West Virginia", "WV" >>,
       << "Wisconsin", "WI" >>, << "Wyoming", "WY" >> >>

\* Series.map(dict): a value that is no key of the dict becomes missing.
MapState(name) ==
    IF \E i \in 1..Len(state_abbreviation_map) : state_abbreviation_map[i][1] = name
    THEN LET i == CHOOSE j \in 1..Len(state_abbreviation_map) :
                      state_abbreviation_map[j][1] = name
         IN  state_abbreviation_map[i][2]
    ELSE NA

\* frame["State"] = series: the series is aligned on the index of the frame
\* and a row the series has no value for gets a missing cell.
AssignState(target, series) ==
    [i \in 1..Len(target) |->
        LET idx == target[i].idx
        IN  [target[i] EXCEPT !.State =
                IF \E r \in Rows(series) : r.idx = idx
                THEN (CHOOSE r \in Rows(series) : r.idx = idx).State
                ELSE NA]]

\* The frame whose State column line 260 assigns.
MappedFrameOriginal == df_original

MappedFrame == df

\* Line 260: df["State"] = df["State"].map(state_abbreviation_map)
MapStateAbbreviations ==
    /\ pc = "map"
    /\ LET series == [i \in 1..Len(heap[df]) |->
                         [idx |-> heap[df][i].idx,
                          State |-> MapState(heap[df][i].State)]]
       IN  heap' = [heap EXCEPT ![MappedFrame] = AssignState(heap[MappedFrame], series)]
    /\ pc' = "bar"
    /\ UNCHANGED << workbook, df_original, filterVars, df, dateVars, kpi, totals,
                    chartVars, barVars, cityVars >>

\* ------------------------------------------------------------ bar charts
group_field ==
    IF scale_option = "Category" THEN "Category"
    ELSE IF scale_option = "Sub-Category" THEN "SubCategory"
    ELSE "ProductName"

\* Lines 276-299: the aggregate of the selected granularity and its top 10.
DynamicBar ==
    /\ pc = "bar"
    /\ grouped_data' \in
         sort_values(WithMarginRate(GroupBy(heap[df], group_field)), selected_kpi)
    /\ top_10_grouped' = head(grouped_data', TopN)
    /\ pc' = "city"
    /\ UNCHANGED << workbook, heap, df_original, filterVars, df, dateVars,
                    kpi, totals, chartVars, cityVars >>

\* Lines 327-333: profit by city and the top 10 cities.
CityBar ==
    /\ pc = "city"
    /\ city_profit' = GroupProfitBy(heap[df], "City")
    /\ \E s \in sort_values(city_profit', "Profit") :
         top_10_cities' = head(s, TopN)
    /\ pc' = "done"
    /\ UNCHANGED << workbook, heap, df_original, filterVars, df, dateVars,
                    kpi, totals, chartVars, barVars >>

\* ----------------------------------------------------------------- rerun
\* An interaction re-executes the script: its names are rebound from scratch
\* and only the table load_data() cached is kept.
Rerun ==
    /\ pc = "done"
    /\ heap' = << heap[df_original] >>
    /\ pc' = "region"
    /\ all_regions' = << >> /\ selected_region' = "All"
    /\ df_filtered_region' = 0
    /\ all_states' = << >> /\ selected_state' = "All"
    /\ df_filtered_state' = 0
    /\ all_categories' = << >> /\ selected_category' = "All"
    /\ df_filtered_category' = 0
    /\ all_subcats' = << >> /\ selected_subcat' = "All"
    /\ df' = 0
    /\ min_date' = 0 /\ max_date' = 0 /\ from_date' = 0 /\ to_date' = 0
    /\ sidebar_error' = FALSE
    /\ kpi' = ZeroKpi /\ totals' = ZeroTotals
    /\ scale_option' = "Category" /\ selected_kpi' = "Sales"
    /\ empty_warning' = FALSE
    /\ daily_grouped' = << >> /\ product_grouped' = << >> /\ top_10' = << >>
    /\ grouped_data' = << >> /\ top_10_grouped' = << >>
    /\ city_profit' = << >> /\ top_10_cities' = << >>
    /\ UNCHANGED << workbook, df_original >>

Next ==
    \/ RegionFilter
    \/ StateFilter
    \/ CategoryFilter
    \/ SubCategoryFilter
    \/ DateRange
    \/ ComputeKPI
    \/ PrepareCharts
    \/ MapStateAbbreviations
    \/ DynamicBar
    \/ CityBar
    \/ Rerun

Spec == Init /\ [][Next]_vars


\* ================================================================ claims
Loaded == load_data(workbook)

AfterRegion == pc \notin {"region"}

AfterState == pc \notin {"region", "state"}

AfterCategory == pc \notin {"region", "state", "category"}

AfterSubcat == pc \notin {"region", "state", "category", "subcat"}

AfterDates == AfterSubcat /\ pc # "dates"

AfterKpi == AfterDates /\ pc # "kpi"

AfterCharts == AfterKpi /\ pc # "charts"

AfterMap == AfterCharts /\ pc # "map"

AfterBar == AfterMap /\ pc # "bar"

\* The active view of the pass.
View == heap[df]

\* A row passes a level when the selection is "All" or the cell equals it.
Passes(r, col, selection) == selection = "All" \/ r[col] = selection

PassesRegion(r) == Passes(r, "Region", selected_region)

PassesState(r) == PassesRegion(r) /\ Passes(r, "State", selected_state)

PassesCategory(r) == PassesState(r) /\ Passes(r, "Category", selected_category)

PassesSubcat(r) == PassesCategory(r) /\ Passes(r, "SubCategory", selected_subcat)

\* The columns the pass never assigns.
KeptColumns ==
    { "idx", "Region", "City", "Category", "SubCategory", "ProductName",
      "OrderDate", "Sales", "Quantity", "Profit" }

\* C1: once the date filter has run, the active view is exactly the rows of
\* the loaded dataset that match every selection that is not "All" and whose
\* order date lies in [from_date, to_date], both bounds included; it is a
\* function of the current selections alone.  (Line 260 later relabels the
\* State cells of the view; its rows and its other cells stay these.)
C1_ActiveViewIsFilteredDataset ==
    AfterDates =>
        LET expected ==
                SelectSeq(Loaded,
                    LAMBDA r : /\ PassesSubcat(r)
                               /\ from_date <= r.OrderDate
                               /\ r.OrderDate <= to_date)
        IN  /\ Len(View) = Len(expected)
            /\ \A i \in 1..Len(expected) : \A c \in KeptColumns :
                   View[i][c] = expected[i][c]
            /\ ~ AfterMap => View = expected

C1_Witness ==
    /\ pc = "done"
    /\ selected_region # "All"
    /\ from_date < to_date
    /\ Len(View) < Len(Loaded)
    /\ \E r \in Rows(View) : r.OrderDate = from_date
    /\ \E r \in Rows(View) : r.OrderDate = to_date

\* The distinct non-missing values of a column among the loaded rows that
\* satisfy a predicate.
ValuesAmong(col, Pred(_)) ==
    { r[col] : r \in { x \in Rows(Loaded) : Pred(x) } } \ {NA}

\* C2: the options offered at each level, without "All", are exactly the
\* distinct non-missing values of the level's column among the rows that
\* passed the earlier levels (listed once each), also when there are none.
C2_OptionsFromEarlierLevels ==
    /\ AfterRegion =>
         /\ Elems(all_regions) = ValuesAmong("Region", LAMBDA r : TRUE)
         /\ Len(all_regions) = Cardinality(Elems(all_regions))
    /\ AfterState =>
         /\ Elems(all_states) = ValuesAmong("State", PassesRegion)
         /\ Len(all_states) = Cardinality(Elems(all_states))
    /\ AfterCategory =>
         /\ Elems(all_categories) = ValuesAmong("Category", PassesState)
         /\ Len(all_categories) = Cardinality(Elems(all_categories))
    /\ AfterSubcat =>
         /\ Elems(all_subcats) = ValuesAmong("SubCategory", PassesCategory)
         /\ Len(all_subcats) = Cardinality(Elems(all_subcats))

C2_Witness ==
    /\ pc = "done"
    /\ selected_region # "All"
    /\ all_states = << >>
    /\ ValuesAmong("State", LAMBDA r : TRUE) # {}
    /\ all_categories # << >>
    /\ Elems(all_categories) # ValuesAmong("Category", LAMBDA r : TRUE)

\* The aggregate tables that carry a margin rate.
MarginTables == << daily_grouped, product_grouped, grouped_data >>

\* C3: every aggregate row (by order date, by product, by the selected
\* granularity) whose summed sales is 0 has margin rate exactly 0.
C3_MarginRateZeroWhenSalesZero ==
    \A k \in 1..Len(MarginTables) : \A row \in Rows(MarginTables[k]) :
        row.Sales = 0 => row["Margin Rate"] = RatZero

\* The sums over the rows of the view at its earliest and latest order date.
StartRows == SelectSeq(View, LAMBDA r : \A x \in Rows(View) : r.OrderDate <= x.OrderDate)

EndRows == SelectSeq(View, LAMBDA r : \A x \in Rows(View) : r.OrderDate >= x.OrderDate)

SameBoundaryDate ==
    \A r \in Rows(View) : \A x \in Rows(View) : r.OrderDate = x.OrderDate

\* C4: a metric whose value at the earliest order date of the view is 0 has
\* growth 0, and when the earliest and the latest order date of the view are
\* the same date every growth is 0.
C4_GrowthSaturation ==
    AfterKpi =>
        /\ ColumnSum(StartRows, "Sales") = 0 => kpi.sales_growth = RatZero
        /\ ColumnSum(StartRows, "Quantity") = 0 => kpi.quantity_growth = RatZero
        /\ ColumnSum(StartRows, "Profit") = 0 => kpi.profit_growth = RatZero
        /\ (ColumnSum(StartRows, "Sales") = 0 \/ ColumnSum(StartRows, "Profit") = 0)
               => kpi.margin_growth = RatZero
        /\ SameBoundaryDate =>
               /\ kpi.sales_growth = RatZero
               /\ kpi.quantity_growth = RatZero
               /\ kpi.profit_growth = RatZero
               /\ kpi.margin_growth = RatZero

C4_Witness ==
    /\ pc = "done"
    /\ ColumnSum(StartRows, "Quantity") = 0
    /\ ColumnSum(EndRows, "Quantity") # 0
    /\ ColumnSum(StartRows, "Sales") # 0
    /\ ~ SameBoundaryDate
    /\ kpi.quantity_growth = RatZero
    /\ kpi.sales_growth # RatZero

RatMul(a, b) == Rat(a.num * b.num, a.den * b.den)

\* growth = (end - start) / start * 100, stated without a division.
IsGrowth(growth, start, end) ==
    RatMul(growth, start) = RatMulInt(RatSub(end, start), 100)

\* C5: on a non-empty view the start value of sales, quantity and profit is
\* the sum over the rows at the earliest order date, the end value the sum
\* over the rows at the latest one (margin being profit / sales * 100 of these
\* rows), and a metric with a non-zero start value has growth
\* (end - start) / start * 100; two orders with sales 100 on the earliest
\* date and 150 on the latest give 100, 150 and 50.
C5_BoundarySnapshotAndGrowth ==
    (AfterKpi /\ View # << >>) =>
        /\ kpi.start_sales = FromInt(ColumnSum(StartRows, "Sales"))
        /\ kpi.end_sales = FromInt(ColumnSum(EndRows, "Sales"))
        /\ kpi.start_quantity = FromInt(ColumnSum(StartRows, "Quantity"))
        /\ kpi.end_quantity = FromInt(ColumnSum(EndRows, "Quantity"))
        /\ kpi.start_profit = FromInt(ColumnSum(StartRows, "Profit"))
        /\ kpi.end_profit = FromInt(ColumnSum(EndRows, "Profit"))
        /\ ColumnSum(StartRows, "Sales") # 0 =>
               RatMulInt(kpi.start_margin, ColumnSum(StartRows, "Sales"))
                   = FromInt(100 * ColumnSum(StartRows, "Profit"))
        /\ ColumnSum(EndRows, "Sales") # 0 =>
               RatMulInt(kpi.end_margin, ColumnSum(EndRows, "Sales"))
                   = FromInt(100 * ColumnSum(EndRows, "Profit"))
        /\ kpi.start_sales # RatZero =>
               IsGrowth(kpi.sales_growth, kpi.start_sales, kpi.end_sales)
        /\ kpi.start_quantity # RatZero =>
               IsGrowth(kpi.quantity_growth, kpi.start_quantity, kpi.end_quantity)
        /\ kpi.start_profit # RatZero =>
               IsGrowth(kpi.profit_growth, kpi.start_profit, kpi.end_profit)
        /\ kpi.start_margin # RatZero =>
               IsGrowth(kpi.margin_growth, kpi.start_margin, kpi.end_margin)
        /\ ( /\ Len(View) = 2
             /\ View[1].OrderDate < View[2].OrderDate
             /\ View[1].Sales = 100
             /\ View[2].Sales = 150 ) =>
               /\ kpi.start_sales = FromInt(100)
               /\ kpi.end_sales = FromInt(150)
               /\ kpi.sales_growth = FromInt(50)

C5_Witness ==
    /\ pc = "done"
    /\ Len(View) = 2
    /\ View[1].OrderDate < View[2].OrderDate
    /\ View[1].Sales = 100
    /\ View[2].Sales = 150
    /\ kpi.sales_growth = FromInt(50)
    /\ kpi.margin_growth = FromInt(-50)


KpiAllZero ==
    /\ kpi.end_sales = RatZero /\ kpi.end_quantity = RatZero
    /\ kpi.end_profit = RatZero /\ kpi.end_margin = RatZero
    /\ kpi.sales_growth = RatZero /\ kpi.quantity_growth = RatZero
    /\ kpi.profit_growth = RatZero /\ kpi.margin_growth = RatZero

\* What a pass shows of an empty view, as far as the pass has got.
EmptyResult ==
    /\ AfterKpi => KpiAllZero /\ totals = ZeroTotals
    /\ AfterCharts =>
         /\ empty_warning
         /\ daily_grouped = << >> /\ product_grouped = << >> /\ top_10 = << >>
    /\ AfterBar => grouped_data = << >> /\ top_10_grouped = << >>
    /\ pc = "done" => city_profit = << >> /\ top_10_cities = << >>

C7_FromAfterToIsNotFatal ==
    (AfterDates /\ from_date > to_date) =>
        /\ sidebar_error
        /\ View = << >>
        /\ EmptyResult

C7_Witness ==
    /\ pc = "done"
    /\ from_date > to_date
    /\ sidebar_error
    /\ \E r \in Rows(Loaded) :
          PassesSubcat(r) /\ to_date <= r.OrderDate /\ r.OrderDate <= from_date

\* A top-N table: the n rows of `grouped` with the largest values of `by`, by
\* non-increasing value, rows of equal value in the order groupby produced
\* them in (the order of their text keys).
KeyBefore(a, b) == Ord(a.key) < Ord(b.key)

IsStableTopN(top, grouped, by, n) ==
    /\ Len(top) = Min2(n, Len(grouped))
    /\ Elems(top) \subseteq Elems(grouped)
    /\ \A i \in 1..Len(top) : \A j \in 1..Len(top) :
          i < j => ~ RatLess(Measure(top[i], by), Measure(top[j], by))
    /\ \A r \in Elems(grouped) \ Elems(top) : \A x \in Elems(top) :
          ~ RatLess(Measure(x, by), Measure(r, by))
    /\ \A i \in 1..Len(top) : \A j \in 1..Len(top) :
          (i < j /\ Measure(top[i], by) = Measure(top[j], by))
              => KeyBefore(top[i], top[j])

\* C8: the top 10 products, the top 10 of the selected granularity and the
\* top 10 cities are the first 10 rows of a stable descending sort of the
\* grouped rows by the chosen measure.
C8_TopNIsStableDescending ==
    /\ AfterCharts => IsStableTopN(top_10, product_grouped, selected_kpi, TopN)
    /\ AfterBar => IsStableTopN(top_10_grouped, grouped_data, selected_kpi, TopN)
    /\ pc = "done" => IsStableTopN(top_10_cities, city_profit, "Profit", TopN)

\* Every selection is "All" or an option offered at its level.
SelectionsOffered ==
    /\ selected_region \in Elems(WithAll(all_regions))
    /\ selected_state \in Elems(WithAll(all_states))
    /\ selected_category \in Elems(WithAll(all_categories))
    /\ selected_subcat \in Elems(WithAll(all_subcats))

\* C9: with a non-empty dataset and every selection "All" or an offered
\* option, the frame left by the four categorical filters, before the date
\* filter, has at least one row.
C9_OfferedOptionsKeepRows ==
    (pc = "dates" /\ Loaded # << >> /\ SelectionsOffered) => View # << >>

C9_Witness ==
    /\ pc = "dates"
    /\ SelectionsOffered
    /\ selected_region # "All" /\ selected_state # "All"
    /\ selected_category # "All" /\ selected_subcat # "All"
    /\ Len(View) < Len(Loaded)

\* C10: no stage changes the table load_data() returned: whatever the
\* selections, and also when the view holds every row, the cached table is
\* cell for cell the loaded dataset, with its full state names.
C10_BaseTableNeverMutated ==
    heap[df_original] = Loaded

C10_Witness ==
    /\ pc = "done"
    /\ selected_region = "All" /\ selected_state = "All"
    /\ selected_category = "All" /\ selected_subcat = "All"
    /\ from_date = min_date /\ to_date = max_date
    /\ Len(View) = Len(Loaded)
    /\ \E i \in 1..Len(View) :
          View[i].State # Loaded[i].State /\ View[i].State # NA

====
